---- MODULE Spec2Model ----
(***************************************************************************)
(* Model of web/src/app/admin/personas/lib.ts: the four exported           *)
(* operations createPersona, updatePersona, deletePersona and              *)
(* buildFinalPrompt, the network calls they issue and the values they      *)
(* settle with.                                                            *)
(*                                                                         *)
(* An async function runs from one await to the next without interruption, *)
(* so every action below is the code between two consecutive awaits.  The  *)
(* network (fetch and the server behind it) is the environment: it settles *)
(* an outstanding call by resolving it with a response (ok flag and body   *)
(* of its choosing) or by rejecting it.                                    *)
(***************************************************************************)
EXTENDS Integers, Sequences, FiniteSets, TLC

(* ----------------------------- bounds ---------------------------------- *)

\* number of invocations that may be in flight at the same time
NumInv == 2
\* most characters systemPrompt and taskPrompt have together
MaxLen == 2

Inv == 1..NumInv

(* ------------------------- JavaScript values --------------------------- *)

Null == [t |-> "null", v |-> 0]
Undefined == [t |-> "undefined", v |-> 0]
Num(n) == [t |-> "number", v |-> n]
IsNum(x) == x.t = "number"

\* ToBoolean on the values a prompt id can take: null, undefined and 0 are falsy
Truthy(x) == IsNum(x) /\ x.v # 0

\* JSON.stringify of an array element: undefined is written as null
jsonElement(x) == IF x = Undefined THEN Null ELSE x

(* ------------------------ inputs of the model -------------------------- *)

Names == {"a"}
PersonaIds == {Num(99)}
BodyIds == {0, 7}
ExistingPromptIds == {0, 42}

PersonaCreationRequest ==
    [name : Names, description : {"desc"}, system_prompt : {"sys"},
     task_prompt : {"task"}, document_set_ids : {<<3>>}, num_chunks : {Num(10)},
     llm_relevance_filter : {TRUE}, llm_model_version_override : {"v1"}]

PersonaUpdateRequest ==
    [id : PersonaIds,
     existingPromptId : {Undefined} \cup {Num(n) : n \in ExistingPromptIds},
     name : Names, description : {"desc"}, system_prompt : {"sys"},
     task_prompt : {"task"}, document_set_ids : {<<3>>}, num_chunks : {Num(10)},
     llm_relevance_filter : {TRUE}, llm_model_version_override : {"v1"}]

NoRequest == [name |-> "none"]

\* reading a property of a request object: a property it lacks reads as undefined
Get(request, property) ==
    IF property \in DOMAIN request THEN request[property] ELSE Undefined

\* a response body: text that does not parse as JSON, or a JSON object whose
\* id field is a number, null, or missing (reading it gives undefined)
Unparseable == [parses |-> FALSE, id |-> Undefined]
JsonBody(id) == [parses |-> TRUE, id |-> id]
Bodies == {Unparseable} \cup {JsonBody(x) : x \in {Undefined, Null} \cup {Num(n) : n \in BodyIds}}

\* a Response object: the call it answers (invocation, index of the call),
\* its ok flag and its body
Response(i, k, ok, body) == [src |-> <<i, k>>, ok |-> ok, body |-> body]
\* the null that stands for "no persona call was made"
NullResponse == [src |-> <<0, 0>>, ok |-> FALSE, body |-> Unparseable]

\* how the network settled a call
Resolved(r) == [how |-> "resolve", resp |-> r]
Rejected == [how |-> "reject", resp |-> NullResponse]

(* --------------------------- request builders -------------------------- *)

JsonHeaders == <<"Content-Type", "application/json">>
NoHeaders == <<>>
NoBody == [kind |-> "none"]

promptNameFromPersonaName(personaName) == <<"default-prompt__", personaName>>

PromptBody(personaName, systemPrompt, taskPrompt) ==
    [kind |-> "prompt",
     name |-> promptNameFromPersonaName(personaName),
     description |-> <<"Default prompt for persona ", personaName>>,
     shared |-> TRUE,
     system_prompt |-> systemPrompt,
     task_prompt |-> taskPrompt]

createPrompt(personaName, systemPrompt, taskPrompt) ==
    [method |-> "POST", path |-> <<"/api/prompt">>, headers |-> JsonHeaders,
     body |-> PromptBody(personaName, systemPrompt, taskPrompt)]

updatePrompt(promptId, personaName, systemPrompt, taskPrompt) ==
    [method |-> "PATCH", path |-> <<"/api/prompt/", promptId>>, headers |-> JsonHeaders,
     body |-> PromptBody(personaName, systemPrompt, taskPrompt)]

\* the object of lines 93-104 as JSON.stringify puts it on the wire
buildPersonaAPIBody(creationRequest, promptId) ==
    [kind |-> "persona",
     name |-> creationRequest.name,
     description |-> creationRequest.description,
     shared |-> TRUE,
     num_chunks |-> creationRequest.num_chunks,
     llm_relevance_filter |-> creationRequest.llm_relevance_filter,
     llm_filter_extraction |-> FALSE,
     recency_bias |-> "base_decay",
     prompt_ids |-> <<jsonElement(promptId)>>,
     document_set_ids |-> creationRequest.document_set_ids,
     llm_model_version_override |-> creationRequest.llm_model_version_override]

createPersonaFetch(request, promptId) ==
    [method |-> "POST", path |-> <<"/api/admin/persona">>, headers |-> JsonHeaders,
     body |-> buildPersonaAPIBody(request, promptId)]

updatePersonaFetch(request, promptId) ==
    [method |-> "PATCH", path |-> <<"/api/admin/persona/", Get(request, "id")>>, headers |-> JsonHeaders,
     body |-> buildPersonaAPIBody(request, promptId)]

(* ------------------------- decisions of the code ----------------------- *)

\* line 121: promptId !== null
ShouldCreatePersona(promptId) == promptId # Null

\* variants of the test of line 162: without the ok flag; with presence for truthiness
ShouldUpdatePersonaIgnoringOk(promptResponse, promptId) == Truthy(promptId)
ShouldUpdatePersonaByPresence(promptResponse, promptId) ==
    promptResponse.ok /\ promptId \notin {Null, Undefined}
\* line 162: promptResponse.ok && promptId
ShouldUpdatePersona(promptResponse, promptId) == promptResponse.ok /\ Truthy(promptId)

\* variant of lines 117, 158 with defensive parsing: a parse failure reads as null
jsonIdOrNull(body) ==
    IF body.parses THEN [throws |-> FALSE, id |-> body.id] ELSE [throws |-> FALSE, id |-> Null]
\* lines 117, 158: (await response.json()).id
jsonId(body) ==
    IF body.parses THEN [throws |-> FALSE, id |-> body.id] ELSE [throws |-> TRUE, id |-> Undefined]

\* variant of lines 144-157 that issues the persona call alongside the prompt call
updatePersonaFanOut(request) ==
    IF Get(request, "existingPromptId") # Undefined
    THEN << updatePrompt(Get(request, "existingPromptId"), request.name,
                         request.system_prompt, request.task_prompt),
            updatePersonaFetch(request, Get(request, "existingPromptId")) >>
    ELSE << createPrompt(request.name, request.system_prompt, request.task_prompt) >>
\* lines 144-157: the calls updatePersona issues before it first suspends
updatePersonaFirstCalls(request) ==
    IF Get(request, "existingPromptId") # Undefined
    THEN << updatePrompt(Get(request, "existingPromptId"), request.name,
                         request.system_prompt, request.task_prompt) >>
    ELSE << createPrompt(request.name, request.system_prompt, request.task_prompt) >>

\* variant of lines 178-180 that also deletes a prompt
deletePersonaCascading(personaId) ==
    << [method |-> "DELETE", path |-> <<"/api/admin/persona/", personaId>>,
        headers |-> NoHeaders, body |-> NoBody],
       [method |-> "DELETE", path |-> <<"/api/prompt/", personaId>>,
        headers |-> NoHeaders, body |-> NoBody] >>
\* lines 178-180: the calls deletePersona issues
deletePersonaCalls(personaId) ==
    << [method |-> "DELETE", path |-> <<"/api/admin/persona/", personaId>>,
        headers |-> NoHeaders, body |-> NoBody] >>

\* variant in which the locals are module-level variables shared by all invocations
SharedFrame(i) == 1
\* the activation record of invocation i: parameters and the locals declared
\* with const/let inside the function body
Frame(i) == i

\* lines 111-115: the call createPersona issues before it first suspends
createPersonaFirstCalls(request) ==
    << createPrompt(request.name, request.system_prompt, request.task_prompt) >>

(* ------------------------------- state --------------------------------- *)

VARIABLES
    pc,        \* pc[i]: where invocation i is suspended
    op,        \* op[i]: the operation invocation i runs
    arg,       \* arg[i]: the argument the caller passed to invocation i
    frame,     \* frame[f]: request, promptResponse and promptId of an activation
    calls,     \* calls[i]: the network calls invocation i has issued, in order
    settles,   \* settles[i]: how the network settled them, in order
    result,    \* result[i]: what the promise returned to the caller settled with
    systemPrompt, taskPrompt, retrievalDisabled,  \* arguments of buildFinalPrompt
    qpc,       \* where the buildFinalPrompt call is
    qcalls,    \* the network calls buildFinalPrompt has issued
    qresult    \* what buildFinalPrompt returned

gateway == <<pc, op, arg, frame, calls, settles, result>>
query == <<systemPrompt, taskPrompt, retrievalDisabled, qpc, qcalls, qresult>>
vars == <<pc, op, arg, frame, calls, settles, result,
          systemPrompt, taskPrompt, retrievalDisabled, qpc, qcalls, qresult>>

EmptyFrame == [req |-> NoRequest, promptResponse |-> NullResponse, promptId |-> Undefined]
Pending == [kind |-> "pending", first |-> NullResponse, second |-> NullResponse]
Pair(a, b) == [kind |-> "pair", first |-> a, second |-> b]
Single(a) == [kind |-> "response", first |-> a, second |-> NullResponse]
Failure == [kind |-> "rejected", first |-> NullResponse, second |-> NullResponse]

\* what the server may answer to a prompt call and to any other call
CreatePromptOutcomes ==
    {<<TRUE, b>> : b \in Bodies} \cup {<<FALSE, Unparseable>>, <<FALSE, JsonBody(Num(7))>>}
UpdatePromptOutcomes == {<<TRUE, Unparseable>>, <<TRUE, JsonBody(Num(7))>>, <<FALSE, Unparseable>>}
PromptOutcomes(call) ==
    IF call.method = "POST" THEN CreatePromptOutcomes ELSE UpdatePromptOutcomes
OtherOutcomes == {<<TRUE, JsonBody(Num(7))>>, <<FALSE, Unparseable>>}

GatewayInit ==
    /\ pc = [i \in Inv |-> "idle"]
    /\ op = [i \in Inv |-> "none"]
    /\ arg = [i \in Inv |-> NoRequest]
    /\ frame = [i \in Inv |-> EmptyFrame]
    /\ calls = [i \in Inv |-> <<>>]
    /\ settles = [i \in Inv |-> <<>>]
    /\ result = [i \in Inv |-> Pending]

QueryIdle ==
    /\ qpc = "idle"
    /\ qcalls = <<>>
    /\ qresult = Pending

Init ==
    /\ GatewayInit
    /\ QueryIdle
    /\ systemPrompt = <<>>
    /\ taskPrompt = <<>>
    /\ retrievalDisabled = FALSE

(* ------------------------ createPersona / updatePersona ---------------- *)

\* lines 120-133 and 161-174: with promptResponse and promptId in the frame fr,
\* issue the persona call or return [promptResponse, null]
PersonaStep(i, fr) ==
    LET issue == IF op[i] = "create"
                 THEN ShouldCreatePersona(fr.promptId)
                 ELSE ShouldUpdatePersona(fr.promptResponse, fr.promptId)
        call == IF op[i] = "create"
                THEN createPersonaFetch(fr.req, fr.promptId)
                ELSE updatePersonaFetch(fr.req, fr.promptId)
    IN IF issue
       THEN /\ calls' = [calls EXCEPT ![i] = Append(@, call)]
            /\ pc' = [pc EXCEPT ![i] = "persona"]
            /\ result' = result
       ELSE /\ calls' = calls
            /\ pc' = [pc EXCEPT ![i] = "done"]
            /\ result' = [result EXCEPT ![i] = Pair(fr.promptResponse, NullResponse)]

\* lines 107-115: createPersona is called and suspends on the create-Prompt call
CallCreatePersona(i, request) ==
    /\ pc[i] = "idle"
    /\ pc' = [pc EXCEPT ![i] = "prompt"]
    /\ op' = [op EXCEPT ![i] = "create"]
    /\ arg' = [arg EXCEPT ![i] = request]
    /\ frame' = [frame EXCEPT ![Frame(i)] = [EmptyFrame EXCEPT !.req = request]]
    /\ calls' = [calls EXCEPT ![i] = createPersonaFirstCalls(request)]
    /\ UNCHANGED <<settles, result>>
    /\ UNCHANGED query

\* lines 136-157: updatePersona is called and suspends on its prompt call;
\* with existingPromptId present, promptId is assigned once the call resolves
CallUpdatePersona(i, request) ==
    /\ pc[i] = "idle"
    /\ pc' = [pc EXCEPT ![i] = "prompt"]
    /\ op' = [op EXCEPT ![i] = "update"]
    /\ arg' = [arg EXCEPT ![i] = request]
    /\ frame' = [frame EXCEPT ![Frame(i)] = [EmptyFrame EXCEPT !.req = request]]
    /\ calls' = [calls EXCEPT ![i] = updatePersonaFirstCalls(request)]
    /\ UNCHANGED <<settles, result>>
    /\ UNCHANGED query

\* the prompt call resolves with a response; lines 116-133 of createPersona,
\* lines 151, 158-174 of updatePersona, up to the next await
PromptResolved(i, ok, body) ==
    /\ pc[i] = "prompt"
    /\ <<ok, body>> \in PromptOutcomes(calls[i][1])
    /\ LET f == Frame(i)
           resp == Response(i, Len(settles[i]) + 1, ok, body)
           existing == Get(frame[f].req, "existingPromptId")
           parses == IF op[i] = "create" THEN ok ELSE existing = Undefined /\ ok
           pid == IF op[i] = "update" /\ existing # Undefined THEN existing ELSE Null
           fr == [frame[f] EXCEPT !.promptResponse = resp, !.promptId = pid]
       IN /\ settles' = [settles EXCEPT ![i] = Append(@, Resolved(resp))]
          /\ IF parses
             THEN /\ frame' = [frame EXCEPT ![f].promptResponse = resp]
                  /\ pc' = [pc EXCEPT ![i] = "json"]
                  /\ UNCHANGED <<calls, result>>
             ELSE /\ frame' = [frame EXCEPT ![f] = fr]
                  /\ PersonaStep(i, fr)
    /\ UNCHANGED <<op, arg>>
    /\ UNCHANGED query

\* response.json() settles: lines 117-133 of createPersona, 158-174 of updatePersona
JsonSettled(i) ==
    /\ pc[i] = "json"
    /\ LET f == Frame(i)
           parsed == jsonId(frame[f].promptResponse.body)
           fr == [frame[f] EXCEPT !.promptId = parsed.id]
       IN IF parsed.throws
          THEN /\ pc' = [pc EXCEPT ![i] = "rejected"]
               /\ result' = [result EXCEPT ![i] = Failure]
               /\ UNCHANGED <<frame, calls>>
          ELSE /\ frame' = [frame EXCEPT ![f] = fr]
               /\ PersonaStep(i, fr)
    /\ UNCHANGED <<op, arg, settles>>
    /\ UNCHANGED query

\* the persona call resolves: lines 133 and 174
PersonaResolved(i, ok, body) ==
    /\ pc[i] = "persona"
    /\ LET resp == Response(i, Len(settles[i]) + 1, ok, body)
       IN /\ settles' = [settles EXCEPT ![i] = Append(@, Resolved(resp))]
          /\ result' = [result EXCEPT ![i] = Pair(frame[Frame(i)].promptResponse, resp)]
    /\ pc' = [pc EXCEPT ![i] = "done"]
    /\ UNCHANGED <<op, arg, frame, calls>>
    /\ UNCHANGED query

\* a fetch rejects (the network failed): the await throws, the invocation rejects
FetchRejected(i) ==
    /\ pc[i] \in {"prompt", "persona", "delete"}
    /\ settles' = [settles EXCEPT ![i] = Append(@, Rejected)]
    /\ pc' = [pc EXCEPT ![i] = "rejected"]
    /\ result' = [result EXCEPT ![i] = Failure]
    /\ UNCHANGED <<op, arg, frame, calls>>
    /\ UNCHANGED query

(* ------------------------------ deletePersona -------------------------- *)

\* lines 177-181: deletePersona returns the promise of its one fetch
CallDeletePersona(i, personaId) ==
    /\ pc[i] = "idle"
    /\ pc' = [pc EXCEPT ![i] = "delete"]
    /\ op' = [op EXCEPT ![i] = "delete"]
    /\ arg' = [arg EXCEPT ![i] = [name |-> "none", id |-> personaId]]
    /\ calls' = [calls EXCEPT ![i] = deletePersonaCalls(personaId)]
    /\ UNCHANGED <<frame, settles, result>>
    /\ UNCHANGED query

DeleteResolved(i, ok, body) ==
    /\ pc[i] = "delete"
    /\ LET resp == Response(i, Len(settles[i]) + 1, ok, body)
       IN /\ settles' = [settles EXCEPT ![i] = Append(@, Resolved(resp))]
          /\ result' = [result EXCEPT ![i] = Single(resp)]
    /\ pc' = [pc EXCEPT ![i] = "done"]
    /\ UNCHANGED <<op, arg, frame, calls>>
    /\ UNCHANGED query

(* ----------------------------- buildFinalPrompt ------------------------ *)

\* a string is a sequence of UTF-16 code units; HighSurrogate LowSurrogate is
\* the surrogate pair of U+1F600
HighSurrogate == "\\uD83D"
LowSurrogate == "\\uDE00"
Alphabet == {"a", "&", "=", " ", "/", "%", HighSurrogate, LowSurrogate}

Strings(n) == UNION {[1..k -> Alphabet] : k \in 0..n}

Letters ==
    {"a", "b", "c", "d", "e", "f", "g", "h", "i", "j", "k", "l", "m", "n", "o", "p", "q",
     "r", "s", "t", "u", "v", "w", "x", "y", "z",
     "A", "B", "C", "D", "E", "F", "G", "H", "I", "J", "K", "L", "M", "N", "O", "P", "Q",
     "R", "S", "T", "U", "V", "W", "X", "Y", "Z"}
Digits == {"0", "1", "2", "3", "4", "5", "6", "7", "8", "9"}
\* the characters encodeURIComponent leaves as they are
uriUnescaped == Letters \cup Digits \cup {"-", "_", ".", "!", "~", "*", "'", "(", ")"}
\* the characters encodeURI leaves as they are
uriReservedPlusUnescaped ==
    uriUnescaped \cup {";", "/", "?", ":", "@", "&", "=", "+", "$", ",", "#"}

\* the UTF-8 octets of a code point, each written %XX
PercentOctets(c) ==
    CASE c = " " -> <<"%", "2", "0">>
      [] c = "%" -> <<"%", "2", "5">>
      [] c = "&" -> <<"%", "2", "6">>
      [] c = "/" -> <<"%", "2", "F">>
      [] c = "=" -> <<"%", "3", "D">>

\* U+1F600 is F0 9F 98 80 in UTF-8
SurrogatePairOctets == <<"%", "F", "0", "%", "9", "F", "%", "9", "8", "%", "8", "0">>

Thrown == [throws |-> TRUE, out |-> <<>>]
Returned(out) == [throws |-> FALSE, out |-> out]
Then(prefix, rest) == IF rest.throws THEN Thrown ELSE Returned(prefix \o rest.out)

\* the Encode operation behind encodeURIComponent and encodeURI: a character of
\* the unescaped set is copied, a surrogate pair is encoded as one code point,
\* a surrogate without its partner throws URIError, anything else is encoded
RECURSIVE Encode(_, _)
Encode(string, unescapedSet) ==
    IF string = <<>> THEN Returned(<<>>)
    ELSE LET c == Head(string)
         IN IF c \in unescapedSet THEN Then(<<c>>, Encode(Tail(string), unescapedSet))
            ELSE IF c = LowSurrogate THEN Thrown
            ELSE IF c = HighSurrogate
                 THEN IF Len(string) < 2 \/ string[2] # LowSurrogate
                      THEN Thrown
                      ELSE Then(SurrogatePairOctets,
                                Encode(Tail(Tail(string)), unescapedSet))
            ELSE Then(PercentOctets(c), Encode(Tail(string), unescapedSet))

\* encodeURI, which leaves the reserved characters raw
encodeURI(string) == Encode(string, uriReservedPlusUnescaped)
\* line 195: encodeURIComponent
encodeURIComponent(string) == Encode(string, uriUnescaped)

\* String(value) of a boolean, as encodeURIComponent converts its argument
BooleanToString(b) == IF b THEN <<"t", "r", "u", "e">> ELSE <<"f", "a", "l", "s", "e">>

SystemPromptKey == <<"s", "y", "s", "t", "e", "m", "_", "p", "r", "o", "m", "p", "t">>
TaskPromptKey == <<"t", "a", "s", "k", "_", "p", "r", "o", "m", "p", "t">>
RetrievalDisabledKey ==
    <<"r", "e", "t", "r", "i", "e", "v", "a", "l", "_", "d", "i", "s", "a", "b", "l", "e", "d">>

\* lines 188-192: Object.entries of the literal, in insertion order
QueryEntries(sp, tp, rd) ==
    << <<SystemPromptKey, sp>>, <<TaskPromptKey, tp>>, <<RetrievalDisabledKey, BooleanToString(rd)>> >>

\* lines 194-195: `${encodeURIComponent(key)}=${encodeURIComponent(value)}`
EncodeEntry(entry) ==
    LET k == encodeURIComponent(entry[1])
        v == encodeURIComponent(entry[2])
    IN IF k.throws \/ v.throws THEN Thrown ELSE Returned(k.out \o <<"=">> \o v.out)

\* line 197: Array.prototype.join
RECURSIVE Join(_, _)
Join(parts, sep) ==
    IF parts = <<>> THEN <<>>
    ELSE IF Len(parts) = 1 THEN parts[1]
    ELSE parts[1] \o <<sep>> \o Join(Tail(parts), sep)

\* lines 188-197: queryString, or the URIError thrown while mapping the entries
QueryString(sp, tp, rd) ==
    LET entries == QueryEntries(sp, tp, rd)
        mapped == [k \in 1..Len(entries) |-> EncodeEntry(entries[k])]
    IN IF \E k \in 1..Len(mapped) : mapped[k].throws
       THEN Thrown
       ELSE Returned(Join([k \in 1..Len(mapped) |-> mapped[k].out], "&"))

\* lines 183-200: buildFinalPrompt is called
CallBuildFinalPrompt ==
    /\ qpc = "idle"
    /\ LET qs == QueryString(systemPrompt, taskPrompt, retrievalDisabled)
       IN IF qs.throws
          THEN /\ qpc' = "thrown"
               /\ qresult' = Failure
               /\ qcalls' = qcalls
          ELSE /\ qpc' = "fetching"
               /\ qresult' = qresult
               /\ qcalls' = << [method |-> "GET",
                                path |-> <<"/api/persona/utils/prompt-explorer">>,
                                query |-> qs.out,
                                headers |-> NoHeaders, body |-> NoBody] >>
    /\ UNCHANGED <<systemPrompt, taskPrompt, retrievalDisabled>>
    /\ UNCHANGED gateway

\* the GET resolves: the promise buildFinalPrompt returned resolves with the response
QueryResolved(ok, body) ==
    /\ qpc = "fetching"
    /\ qpc' = "done"
    /\ qresult' = Single(Response(0, 1, ok, body))
    /\ UNCHANGED <<systemPrompt, taskPrompt, retrievalDisabled, qcalls>>
    /\ UNCHANGED gateway

QueryRejected ==
    /\ qpc = "fetching"
    /\ qpc' = "rejected"
    /\ qresult' = Failure
    /\ UNCHANGED <<systemPrompt, taskPrompt, retrievalDisabled, qcalls>>
    /\ UNCHANGED gateway

QueryInit ==
    /\ GatewayInit
    /\ QueryIdle
    /\ systemPrompt \in Strings(MaxLen)
    /\ taskPrompt \in Strings(MaxLen)
    /\ Len(systemPrompt) + Len(taskPrompt) <= MaxLen
    /\ retrievalDisabled \in BOOLEAN

QueryNext ==
    \/ CallBuildFinalPrompt
    \/ \E o \in OtherOutcomes : QueryResolved(o[1], o[2])
    \/ QueryRejected

SpecQuery == QueryInit /\ [][QueryNext]_vars

Next ==
    \/ \E i \in Inv, request \in PersonaCreationRequest : CallCreatePersona(i, request)
    \/ \E i \in Inv, request \in PersonaUpdateRequest : CallUpdatePersona(i, request)
    \/ \E i \in Inv, o \in CreatePromptOutcomes \cup UpdatePromptOutcomes : PromptResolved(i, o[1], o[2])
    \/ \E i \in Inv : JsonSettled(i)
    \/ \E i \in Inv, o \in OtherOutcomes : PersonaResolved(i, o[1], o[2])
    \/ \E i \in Inv : FetchRejected(i)
    \/ \E i \in Inv, personaId \in PersonaIds : CallDeletePersona(i, personaId)
    \/ \E i \in Inv, o \in OtherOutcomes : DeleteResolved(i, o[1], o[2])

Spec == Init /\ [][Next]_vars

(* ===================== properties of createPersona / updatePersona ===== *)

IsGateway(i) == op[i] \in {"create", "update"}
ExistingOf(i) == Get(arg[i], "existingPromptId")
HasExisting(i) == op[i] = "update" /\ ExistingOf(i) # Undefined
CreatesPrompt(i) == op[i] = "create" \/ (op[i] = "update" /\ ExistingOf(i) = Undefined)

\* the prompt call of invocation i has resolved with a response
PromptAnswered(i) == Len(settles[i]) >= 1 /\ settles[i][1].how = "resolve"
PromptResponseOf(i) == settles[i][1].resp
PersonaIssued(i) == \E k \in 1..Len(calls[i]) : calls[i][k].body.kind = "persona"

IsCreatePrompt(c) == c.method = "POST" /\ c.path = <<"/api/prompt">> /\ c.body.kind = "prompt"
IsUpdatePrompt(c, n) == c.method = "PATCH" /\ c.path = <<"/api/prompt/", n>> /\ c.body.kind = "prompt"
IsPromptCall(c) == c.body.kind = "prompt" /\ c.path[1] \in {"/api/prompt", "/api/prompt/"}
IsPersonaCallOf(i, c) ==
    /\ c.body.kind = "persona"
    /\ IF op[i] = "create"
       THEN c.method = "POST" /\ c.path = <<"/api/admin/persona">>
       ELSE c.method = "PATCH" /\ c.path = <<"/api/admin/persona/", arg[i].id>>

\* C1: createPersona issues the create-Persona call only when the create-Prompt
\* call succeeded and its body yielded an id; in every other case it issues no
\* create-Persona call and the second element of the returned pair is null.
C1_PersonaOnlyWithId ==
    \A i \in Inv : op[i] = "create" /\ PromptAnswered(i) /\ pc[i] # "json" =>
        LET r == PromptResponseOf(i)
            gotId == r.ok /\ r.body.parses /\ IsNum(r.body.id)
        IN /\ PersonaIssued(i) => gotId
           /\ ~gotId /\ pc[i] = "done" => result[i].kind = "pair" /\ result[i].second = NullResponse

\* C2: when the prompt call resolves with a response whose ok flag is false,
\* createPersona and updatePersona issue no persona call, do not throw, and
\* return [promptResponse, null] with that failed response.
C2_FailedPromptShortCircuits ==
    \A i \in Inv : IsGateway(i) /\ PromptAnswered(i) /\ ~PromptResponseOf(i).ok =>
        /\ Len(calls[i]) = 1
        /\ ~PersonaIssued(i)
        /\ pc[i] = "done"
        /\ result[i] = Pair(PromptResponseOf(i), NullResponse)

C2_Witness ==
    /\ \E i \in Inv : op[i] = "create" /\ PromptAnswered(i) /\ ~PromptResponseOf(i).ok
                      /\ PromptResponseOf(i).body = JsonBody(Num(7)) /\ pc[i] = "done"
    /\ \E i \in Inv : HasExisting(i) /\ Truthy(ExistingOf(i)) /\ PromptAnswered(i)
                      /\ ~PromptResponseOf(i).ok /\ pc[i] = "done"

\* C3: every persona call carries prompt_ids of exactly one element, and that
\* element is the prompt id obtained in the prompt step: the id in the
\* create-Prompt response body, or existingPromptId when it is present.
C3_ExactlyOnePromptId ==
    \A i \in Inv : \A k \in 1..Len(calls[i]) :
        IsGateway(i) /\ calls[i][k].body.kind = "persona" =>
            LET ids == calls[i][k].body.prompt_ids
            IN /\ Len(ids) = 1
               /\ IsNum(ids[1])
               /\ PromptAnswered(i)
               /\ ids[1] = IF HasExisting(i) THEN ExistingOf(i) ELSE PromptResponseOf(i).body.id

\* C4: updatePersona with existingPromptId = n issues PATCH /api/prompt/n and
\* never a create-Prompt POST, and if that PATCH succeeds the update-Persona
\* call is issued with prompt_ids = [n].
C4_ExistingPromptIsUpdated ==
    \A i \in Inv : HasExisting(i) =>
        /\ IsUpdatePrompt(calls[i][1], ExistingOf(i))
        /\ \A k \in 1..Len(calls[i]) : ~IsCreatePrompt(calls[i][k])
        /\ PromptAnswered(i) /\ PromptResponseOf(i).ok =>
              /\ Len(calls[i]) = 2
              /\ IsPersonaCallOf(i, calls[i][2])
              /\ calls[i][2].body.prompt_ids = <<ExistingOf(i)>>

\* the prompt step of updatePersona is over and the persona decision is taken
UpdateDecided(i) == op[i] = "update" /\ PromptAnswered(i) /\ pc[i] # "json"

\* C5: updatePersona issues the update-Persona PATCH if and only if the prompt
\* response was successful and the resulting promptId is truthy; a promptId of 0
\* is falsy: no persona call and the result is [promptResponse, null].
C5_UpdateIffOkAndTruthy ==
    \A i \in Inv : UpdateDecided(i) =>
        LET r == PromptResponseOf(i)
            parsed == r.ok /\ ~HasExisting(i)
            thrown == parsed /\ ~r.body.parses
            promptId == IF HasExisting(i) THEN ExistingOf(i)
                        ELSE IF parsed THEN r.body.id ELSE Null
        IN /\ PersonaIssued(i) <=> (~thrown /\ r.ok /\ Truthy(promptId))
           /\ PersonaIssued(i) =>
                 /\ Len(calls[i]) = 2
                 /\ IsPersonaCallOf(i, calls[i][2])
           /\ ~thrown /\ r.ok /\ promptId = Num(0) =>
                 /\ pc[i] = "done"
                 /\ result[i] = Pair(r, NullResponse)

C5_Witness ==
    /\ \E i \in Inv : /\ op[i] = "update" /\ ExistingOf(i) = Num(0)
                      /\ PromptAnswered(i) /\ PromptResponseOf(i).ok
                      /\ pc[i] = "done" /\ result[i].second = NullResponse
    /\ \E i \in Inv : /\ op[i] = "update" /\ ExistingOf(i) = Undefined
                      /\ PromptAnswered(i) /\ PromptResponseOf(i).ok
                      /\ PromptResponseOf(i).body = JsonBody(Num(0))
                      /\ pc[i] = "done" /\ result[i].second = NullResponse

\* C6: an invocation issues exactly one prompt call and then at most one
\* persona call, the persona call only after the prompt call's response was
\* received, and no further call whatever the outcomes.
C6_OnePromptThenAtMostOnePersona ==
    \A i \in Inv : IsGateway(i) =>
        /\ Len(calls[i]) \in {1, 2}
        /\ IsPromptCall(calls[i][1])
        /\ Len(settles[i]) <= Len(calls[i])
        /\ Len(calls[i]) <= Len(settles[i]) + 1
        /\ Len(calls[i]) = 2 =>
              /\ IsPersonaCallOf(i, calls[i][2])
              /\ PromptAnswered(i)
        /\ pc[i] \in {"done", "rejected"} => Len(settles[i]) = Len(calls[i])

C6_Witness ==
    \E i \in Inv : /\ op[i] = "create" /\ pc[i] = "done" /\ Len(calls[i]) = 2
                   /\ settles[i][2].how = "resolve" /\ ~settles[i][2].resp.ok

\* the first call invocation i must issue, built from the argument it was given
OwnFirstCall(i) ==
    IF HasExisting(i)
    THEN updatePrompt(ExistingOf(i), arg[i].name, arg[i].system_prompt, arg[i].task_prompt)
    ELSE createPrompt(arg[i].name, arg[i].system_prompt, arg[i].task_prompt)

\* the value the prompt step of invocation i produced, taken from its own
\* argument and the response to its own prompt call
OwnPromptId(i) == IF HasExisting(i) THEN ExistingOf(i) ELSE PromptResponseOf(i).body.id

\* C7: with several invocations in flight, each invocation's persona call
\* carries the prompt id value its own prompt step produced (as JSON writes it)
\* and the fields of its own request, and each invocation returns its own
\* prompt response and its own persona response (or null).
C7_InvocationsAreIndependent ==
    \A i \in Inv : IsGateway(i) =>
        /\ calls[i][1] = OwnFirstCall(i)
        /\ \A k \in 1..Len(settles[i]) :
              settles[i][k].how = "resolve" => settles[i][k].resp.src = <<i, k>>
        /\ Len(calls[i]) >= 2 =>
              /\ PromptAnswered(i)
              /\ IsPersonaCallOf(i, calls[i][2])
              /\ calls[i][2].body.prompt_ids = <<jsonElement(OwnPromptId(i))>>
              /\ calls[i][2].body.name = arg[i].name
              /\ calls[i][2].body.document_set_ids = arg[i].document_set_ids
        /\ pc[i] = "done" =>
              /\ result[i].kind = "pair"
              /\ result[i].first = PromptResponseOf(i)
              /\ result[i].second = IF Len(calls[i]) = 2 THEN settles[i][2].resp ELSE NullResponse

C7_Witness ==
    \E i, j \in Inv :
        /\ i # j
        /\ op[i] = "create" /\ op[j] = "update"
        /\ pc[i] = "done" /\ pc[j] = "done"
        /\ Len(calls[i]) = 2 /\ Len(calls[j]) = 2
        /\ calls[i][2].body.prompt_ids = <<Num(7)>>
        /\ calls[j][2].body.prompt_ids = <<Num(42)>>
        /\ result[i].second.src = <<i, 2>>
        /\ result[j].second.src = <<j, 2>>

(* ========================= properties of deletePersona ================= *)

\* C8: deletePersona(personaId) issues exactly one call, a DELETE to
\* /api/admin/persona/{personaId} with no body, none against a Prompt, and
\* returns that call's response unmodified.
C8_DeleteIsOneCall ==
    \A i \in Inv : op[i] = "delete" =>
        /\ Len(calls[i]) = 1
        /\ calls[i][1].method = "DELETE"
        /\ calls[i][1].path = <<"/api/admin/persona/", arg[i].id>>
        /\ calls[i][1].body = NoBody
        /\ \A k \in 1..Len(calls[i]) : calls[i][k].path[1] \notin {"/api/prompt", "/api/prompt/"}
        /\ pc[i] = "done" =>
              /\ Len(settles[i]) = 1
              /\ settles[i][1].how = "resolve"
              /\ result[i] = Single(settles[i][1].resp)

C8_Witness ==
    \E i \in Inv : op[i] = "delete" /\ pc[i] = "done" /\ arg[i].id = Num(99)
                   /\ result[i].kind = "response" /\ ~result[i].first.ok

(* ===================== JSON parse failure of the prompt body =========== *)

\* the prompt call of i resolved with ok and a body that is not JSON
OkButUnparseable(i) ==
    PromptAnswered(i) /\ PromptResponseOf(i).ok /\ ~PromptResponseOf(i).body.parses

\* C10: when the create-Prompt call succeeds with a body that fails to parse,
\* createPersona and updatePersona (existingPromptId absent) reject: no persona
\* call, no pair returned.  With existingPromptId present the body is never
\* parsed, so the invocation does not reject on it.
C10_ParseFailureRejects ==
    \A i \in Inv : IsGateway(i) =>
        /\ CreatesPrompt(i) /\ OkButUnparseable(i) /\ pc[i] # "json" =>
              /\ pc[i] = "rejected"
              /\ result[i] = Failure
              /\ Len(calls[i]) = 1
        /\ HasExisting(i) =>
              /\ pc[i] # "json"
              /\ pc[i] = "rejected" => settles[i][Len(settles[i])].how = "reject"
              /\ OkButUnparseable(i) /\ Truthy(ExistingOf(i)) => Len(calls[i]) = 2

C10_Witness ==
    /\ \E i \in Inv : op[i] = "create" /\ OkButUnparseable(i) /\ pc[i] = "rejected"
    /\ \E i \in Inv : HasExisting(i) /\ OkButUnparseable(i) /\ pc[i] = "done"
                      /\ result[i].kind = "pair" /\ result[i].second # NullResponse

(* ======================= properties of buildFinalPrompt ================ *)

\* the pieces of s between occurrences of sep
RECURSIVE SplitOn(_, _)
SplitOn(s, sep) ==
    IF \A k \in 1..Len(s) : s[k] # sep THEN <<s>>
    ELSE LET at == CHOOSE k \in 1..Len(s) : s[k] = sep /\ \A m \in 1..(k - 1) : s[m] # sep
         IN <<SubSeq(s, 1, at - 1)>> \o SplitOn(SubSeq(s, at + 1, Len(s)), sep)

\* decoding of a percent-encoded string, read off the UTF-8 tables
RECURSIVE PercentDecode(_)
PercentDecode(s) ==
    IF s = <<>> THEN <<>>
    ELSE IF Head(s) # "%" THEN <<Head(s)>> \o PercentDecode(Tail(s))
    ELSE LET hex == SubSeq(s, 2, 3)
         IN IF hex = <<"F", "0">>
            THEN IF SubSeq(s, 1, 12) = <<"%", "F", "0", "%", "9", "F", "%", "9", "8", "%", "8", "0">>
                 THEN <<HighSurrogate, LowSurrogate>> \o PercentDecode(SubSeq(s, 13, Len(s)))
                 ELSE <<"malformed">>
            ELSE (CASE hex = <<"2", "0">> -> <<" ">>
                    [] hex = <<"2", "5">> -> <<"%">>
                    [] hex = <<"2", "6">> -> <<"&">>
                    [] hex = <<"2", "F">> -> <<"/">>
                    [] hex = <<"3", "D">> -> <<"=">>
                    [] OTHER -> <<"malformed">>) \o PercentDecode(SubSeq(s, 4, Len(s)))

\* every surrogate of s is half of a pair
RECURSIVE WellFormed(_)
WellFormed(s) ==
    IF s = <<>> THEN TRUE
    ELSE IF Head(s) = HighSurrogate
         THEN Len(s) >= 2 /\ s[2] = LowSurrogate /\ WellFormed(Tail(Tail(s)))
    ELSE Head(s) # LowSurrogate /\ WellFormed(Tail(s))

QueryKeys == <<SystemPromptKey, TaskPromptKey, RetrievalDisabledKey>>
QueryArgs == <<systemPrompt, taskPrompt, BooleanToString(retrievalDisabled)>>
RawSeparators == {"&", "=", " ", "/"}

\* the one call issued is the GET whose query string is the three pairs, in
\* order, every value percent-encoded with no separator left raw
OneWellFormedGet ==
    /\ Len(qcalls) = 1
    /\ qcalls[1].method = "GET"
    /\ qcalls[1].path = <<"/api/persona/utils/prompt-explorer">>
    /\ qcalls[1].body = NoBody
    /\ LET pairs == SplitOn(qcalls[1].query, "&")
       IN /\ Len(pairs) = 3
          /\ \A k \in 1..3 :
                LET kv == SplitOn(pairs[k], "=")
                IN /\ Len(kv) = 2
                   /\ kv[1] = QueryKeys[k]
                   /\ \A m \in 1..Len(kv[2]) : kv[2][m] \notin RawSeparators
                   /\ PercentDecode(kv[2]) = QueryArgs[k]

\* C9 as stated: for every input, buildFinalPrompt issues exactly one GET to
\* /api/persona/utils/prompt-explorer whose query string is the three
\* key=value pairs in the order system_prompt, task_prompt, retrieval_disabled,
\* each value percent-encoded.
C9_AlwaysOneGet == qpc # "idle" => OneWellFormedGet

\* C9 amended: that holds for every input in which each surrogate code unit is
\* half of a pair; for an input with a lone surrogate encodeURIComponent throws
\* URIError and buildFinalPrompt issues no call.
C9_OneGetUnlessLoneSurrogate ==
    qpc # "idle" =>
        IF WellFormed(systemPrompt) /\ WellFormed(taskPrompt)
        THEN OneWellFormedGet /\ qpc # "thrown"
        ELSE qcalls = <<>> /\ qpc = "thrown" /\ qresult = Failure

C9_Witness ==
    /\ qpc = "done"
    /\ systemPrompt = <<"&", "=">>
    /\ taskPrompt = <<>>
    /\ retrievalDisabled
    /\ Len(qcalls) = 1
    /\ qresult.kind = "response"

====
